---------------------------- MODULE Spec2Model ----------------------------
(***************************************************************************)
(* Model of lib/src/transaction.rs: the Transaction session object, its    *)
(* MutableRepo (mutable view + cached mutable evolution), the checkout     *)
(* state machine check_out, and the commit / discard / Drop life cycle.    *)
(*                                                                         *)
(* The store, the view, the evolution index and the commit builder are     *)
(* collaborators whose code lives in other files of the crate; they are    *)
(* modelled from their documented contracts.                               *)
(***************************************************************************)
EXTENDS Integers, FiniteSets, Sequences, TLC

(* ------------------------------ bounds -------------------------------- *)

\* The store holds at most this many commits (ids 1..MaxCommits).
MaxCommits == 4

\* Two concurrent sessions make at most this many calls between them.
MaxCalls == 3

\* The transactions opened against the same base ReadonlyRepo.
Txs == {1, 2}

\* The repository paths a tree may mention.
Paths == {1}

\* A CommitId that no commit of the store ever has.
MissingId == 0

VARIABLES
    store,   \* StoreWrapper: commit id -> store::Commit, shared by all transactions
    trees,   \* StoreWrapper: the set of trees written to the store
    base,    \* the ReadonlyRepo's ReadonlyView (immutable)
    tx,      \* Txs -> Transaction (with its MutableRepo flattened in)
    ops,     \* the Operations returned by commit(), in order
    last,    \* the call made by the latest step, and its outcome
    calls    \* the number of calls made so far by two concurrent sessions

vars == <<store, trees, base, tx, ops, last, calls>>

(* ------------------------------- trees -------------------------------- *)

\* A tree: the paths holding a normal file and the paths holding a conflict.
Trees == { [files |-> f, confl |-> c] : f \in SUBSET Paths, c \in SUBSET Paths }

ValidTrees == { tr \in Trees : tr.files \cap tr.confl = {} }

EmptyTree == [files |-> {}, confl |-> {}]

\* Faulty variant of MaterializedTree: the conflicted paths are left as they
\* are (C15 must detect it).
MaterializedTree_KeepsConflicts(tr) == tr

\* check_out's tree_builder loop: every conflicted path is set to
\* TreeValue::Normal; write_tree() then yields the id of the resulting tree.
MaterializedTree(tr) == [files |-> tr.files \cup tr.confl, confl |-> {}]

(* ------------------------------ commits ------------------------------- *)

\* store.write_commit: the commit gets an id no stored commit has.
NextId(st) == Cardinality(DOMAIN st) + 1

StoreWriteCommit(st, data) == [ i \in DOMAIN st \cup {NextId(st)} |->
                                  IF i \in DOMAIN st THEN st[i] ELSE data ]

\* Commit::is_empty: the commit's tree is its parent's tree (the empty tree
\* for a commit without parent).
ParentTree(st, c) ==
    IF st[c].parents = {} THEN EmptyTree
    ELSE st[CHOOSE p \in st[c].parents : TRUE].tree

IsEmpty(st, c) == st[c].tree = ParentTree(st, c)

\* CommitBuilder::for_rewrite_from: a copy of the predecessor that names it
\* as its predecessor.
ForRewriteFrom(st, c) == [st[c] EXCEPT !.predecessors = {c}]

\* CommitBuilder::for_open_commit: a new open commit on top of parent_id.
ForOpenCommit(parent_id, tree_id) ==
    [parents |-> {parent_id}, predecessors |-> {}, tree |-> tree_id,
     is_open |-> TRUE, is_pruned |-> FALSE]

(* ------------------------------- view --------------------------------- *)

\* ReadonlyView::start_modification: a private copy of the view's data.
StartModification(view) == [head_ids |-> view.head_ids, checkout |-> view.checkout]

ViewAddHead(view, c) == [view EXCEPT !.head_ids = @ \cup {c}]

ViewRemoveHead(view, c) == [view EXCEPT !.head_ids = @ \ {c}]

ViewSetCheckout(view, id) == [view EXCEPT !.checkout = id]

ViewSetView(view, data) == [head_ids |-> data.head_ids, checkout |-> data.checkout]

(* ----------------------------- evolution ------------------------------ *)

RECURSIVE AncestorsOf(_, _, _)
AncestorsOf(st, frontier, seen) ==
    IF frontier \subseteq seen THEN seen
    ELSE LET new == frontier \ seen
             up  == UNION { st[c].parents : c \in new \cap DOMAIN st }
         IN  AncestorsOf(st, up, seen \cup new)

\* The evolution state derived from a view: the commits that some commit
\* reachable from the view's heads names as a predecessor.
ComputeObsolete(st, view) ==
    LET reach == AncestorsOf(st, view.head_ids, {}) \cap DOMAIN st
    IN  UNION { st[d].predecessors : d \in reach }

\* MutableEvolution::invalidate: the cached state is dropped.
Invalidate(evo) == [evo EXCEPT !.valid = FALSE, !.obsolete = {}]

\* MutableEvolution as read through Evolution::is_obsolete: a valid cache
\* answers; otherwise the state is recomputed from the current view and kept.
Refreshed(st, view, evo) ==
    IF evo.valid THEN evo
    ELSE [evo EXCEPT !.valid = TRUE, !.obsolete = ComputeObsolete(st, view)]


(* ---------------------------- Transaction ----------------------------- *)

\* What a Transaction holds once its MutableView has been moved out.
NoView == [head_ids |-> {}, checkout |-> MissingId]

\* MutableRepo.evolution = None.
NoEvolution == [some |-> FALSE, valid |-> FALSE, obsolete |-> {}]

\* Transaction::new.  The MutableRepo gets a private copy of the base view
\* and a mutable evolution that starts from the read-only evolution's state.
\* status / called / unwinding / drop_fault record the history of the
\* object: whether it has been released, which terminal method was called
\* on it, whether its Drop ran during an unwind and whether Drop's
\* assertion failed.  handles is the number of Arc handles to the
\* MutableRepo: Arc::new makes the one the Transaction holds, and nothing in
\* this file clones it.
NewTransaction(view, evolution, description, now) ==
    [ repo        |-> "Some",
      handles     |-> 1,
      view        |-> StartModification(view),
      evolution   |-> [some |-> TRUE, valid |-> evolution.valid,
                       obsolete |-> evolution.obsolete],
      description |-> description,
      start_time  |-> now,
      closed      |-> FALSE,
      status      |-> "live",
      called      |-> "none",
      unwinding   |-> FALSE,
      drop_fault  |-> FALSE ]

\* The outcome of a call, as kept in last.
Call(op, t, result, target, cur, ret, pruned_as, answer, fail) ==
    [op |-> op, t |-> t, result |-> result, target |-> target, cur |-> cur,
     ret |-> ret, pruned_as |-> pruned_as, answer |-> answer, fail |-> fail]

\* A call that takes a commit or an id and returns nothing.
SimpleCall(op, t, target) ==
    Call(op, t, "ok", target, MissingId, MissingId, MissingId, FALSE, "none")

\* Arc::get_mut(self.repo.as_mut().unwrap()).unwrap(): the MutableRepo is
\* there and this Transaction holds the only handle to it.
Usable(t) == tx[t].status = "live" /\ tx[t].repo = "Some" /\ tx[t].handles = 1

\* Faulty variant of WithRepo: the transactions share one MutableView instead
\* of each owning a copy (C3 must detect it).
WithRepo_SharedView(txs, t, view, evolution) ==
    [u \in DOMAIN txs |-> [txs[u] EXCEPT !.view = view, !.evolution = evolution]]

\* mut_repo.view.as_mut().unwrap() = ... for transaction t only.
WithRepo(txs, t, view, evolution) ==
    [txs EXCEPT ![t].view = view, ![t].evolution = evolution]

\* Faulty variant of AddHeadTo: the evolution is not invalidated (C5 must
\* detect it).
AddHeadTo_KeepsCache(mr, c) ==
    [view |-> ViewAddHead(mr.view, c), evolution |-> mr.evolution]

\* add_head: the view gains the head and the evolution is invalidated.
AddHeadTo(mr, c) ==
    [view |-> ViewAddHead(mr.view, c),
     evolution |-> Invalidate(mr.evolution)]

\* Faulty variant of RemoveHeadFrom: the evolution is not invalidated (C6
\* must detect it).
RemoveHeadFrom_KeepsCache(mr, c) ==
    [view |-> ViewRemoveHead(mr.view, c), evolution |-> mr.evolution]

\* remove_head: the view loses the head and the evolution is invalidated.
RemoveHeadFrom(mr, c) ==
    [view |-> ViewRemoveHead(mr.view, c),
     evolution |-> Invalidate(mr.evolution)]

\* set_view: the view's data is replaced and the evolution is invalidated.
SetViewOf(mr, data) ==
    [view |-> ViewSetView(mr.view, data),
     evolution |-> Invalidate(mr.evolution)]

\* set_checkout: the view's checkout is overwritten; nothing else.
SetCheckoutOf(mr, id) ==
    [view |-> ViewSetCheckout(mr.view, id), evolution |-> mr.evolution]

\* Faulty variant of WriteCommitTo: the commit is stored but not added to the
\* view's heads (C12 must detect it).
WriteCommitTo_NoHead(st, mr, data) ==
    [store |-> StoreWriteCommit(st, data),
     mr |-> mr,
     commit |-> NextId(st)]

\* write_commit (also CommitBuilder::write_to_transaction, which ends in
\* it): the commit is stored and becomes a head.
WriteCommitTo(st, mr, data) ==
    [store |-> StoreWriteCommit(st, data),
     mr |-> AddHeadTo(mr, NextId(st)),
     commit |-> NextId(st)]

\* as_repo().evolution().is_obsolete(id)
IsObsoleteIn(st, mr, id) ==
    LET evo == Refreshed(st, mr.view, mr.evolution)
    IN  [mr |-> [view |-> mr.view, evolution |-> evo],
         answer |-> id \in evo.obsolete]

(* ------------------------------ check_out ----------------------------- *)

\* A check_out that panicked at some line: what it had done so far stays.
CheckOutPanic(st, trs, mr, cur, pruned_as) ==
    [store |-> st, trees |-> trs, mr |-> mr, result |-> "panic",
     cur |-> cur, ret |-> MissingId, pruned_as |-> pruned_as]

\* Faulty variant of PruneStep: is_empty is not tested, so a checkout with
\* content is pruned as well (C8 must detect it).
PruneStep_PrunesNonEmpty(st, mr, cur) ==
    LET asks  == ~st[cur].is_pruned
        asked == IF asks THEN IsObsoleteIn(st, mr, cur)
                 ELSE [mr |-> mr, answer |-> FALSE]
    IN  IF asks /\ ~asked.answer
        THEN WriteCommitTo(st, asked.mr,
                           [ForRewriteFrom(st, cur) EXCEPT !.is_pruned = TRUE])
        ELSE [store |-> st, mr |-> asked.mr, commit |-> MissingId]

\* Faulty variant of PruneStep: the evolution is not asked, so an obsolete
\* checkout is pruned again (C20 must detect it).
PruneStep_IgnoresObsolete(st, mr, cur) ==
    IF IsEmpty(st, cur) /\ ~st[cur].is_pruned
    THEN WriteCommitTo(st, mr,
                       [ForRewriteFrom(st, cur) EXCEPT !.is_pruned = TRUE])
    ELSE [store |-> st, mr |-> mr, commit |-> MissingId]

\* Lines 106-115: the checkout being left is pruned when it is empty and
\* neither pruned nor obsolete.  is_obsolete is only asked (and the evolution
\* only recomputed) when the first two tests let the evaluation get there.
PruneStep(st, mr, cur) ==
    LET asks  == IsEmpty(st, cur) /\ ~st[cur].is_pruned
        asked == IF asks THEN IsObsoleteIn(st, mr, cur)
                 ELSE [mr |-> mr, answer |-> FALSE]
    IN  IF asks /\ ~asked.answer
        THEN WriteCommitTo(st, asked.mr,
                           [ForRewriteFrom(st, cur) EXCEPT !.is_pruned = TRUE])
        ELSE [store |-> st, mr |-> asked.mr, commit |-> MissingId]

\* Faulty variant of SelectCommit: a closed target without conflicts is used
\* as it is (C9 must detect it).
SelectCommit_ReusesClosed(st, mr, target, tree_id) ==
    IF tree_id # st[target].tree
    THEN IF st[target].is_open
         THEN WriteCommitTo(st, mr, [ForRewriteFrom(st, target) EXCEPT !.tree = tree_id])
         ELSE WriteCommitTo(st, mr, ForOpenCommit(target, tree_id))
    ELSE [store |-> st, mr |-> mr, commit |-> target]

\* Faulty variant of SelectCommit: an open target is rewritten even when the
\* materialization left its tree unchanged (C10 must detect it).
SelectCommit_AlwaysRewrites(st, mr, target, tree_id) ==
    IF ~st[target].is_open
    THEN WriteCommitTo(st, mr, ForOpenCommit(target, tree_id))
    ELSE WriteCommitTo(st, mr, [ForRewriteFrom(st, target) EXCEPT !.tree = tree_id])

\* Faulty variant of SelectCommit: an open target that is used as it is, is
\* also added to the view's heads (C16 must detect it).
SelectCommit_AddsReusedHead(st, mr, target, tree_id) ==
    IF ~st[target].is_open
    THEN WriteCommitTo(st, mr, ForOpenCommit(target, tree_id))
    ELSE IF tree_id # st[target].tree
    THEN WriteCommitTo(st, mr, [ForRewriteFrom(st, target) EXCEPT !.tree = tree_id])
    ELSE [store |-> st, mr |-> AddHeadTo(mr, target), commit |-> target]

\* Lines 135-155: the commit that becomes the checkout.
SelectCommit(st, mr, target, tree_id) ==
    IF ~st[target].is_open
    THEN WriteCommitTo(st, mr, ForOpenCommit(target, tree_id))
    ELSE IF tree_id # st[target].tree
    THEN WriteCommitTo(st, mr, [ForRewriteFrom(st, target) EXCEPT !.tree = tree_id])
    ELSE [store |-> st, mr |-> mr, commit |-> target]

\* Faulty variant of CheckOutOn: the assertion that the current checkout is
\* open is missing (C7 must detect it).
CheckOutOn_NoOpenAssert(st, trs, mr, target, fail) ==
    LET cur == mr.view.checkout
    IN  IF cur \notin DOMAIN st
        THEN CheckOutPanic(st, trs, mr, cur, MissingId)
        ELSE
          LET p == PruneStep(st, mr, cur)
          IN  IF st[target].tree.confl # {} /\ fail # "none"
              THEN CheckOutPanic(p.store, trs, p.mr, cur, p.commit)
              ELSE
                LET tree_id == MaterializedTree(st[target].tree)
                    s == SelectCommit(p.store, p.mr, target, tree_id)
                IN  [store |-> s.store,
                     trees |-> trs \cup {tree_id},
                     mr |-> SetCheckoutOf(s.mr, s.commit),
                     result |-> "ok",
                     cur |-> cur,
                     ret |-> s.commit,
                     pruned_as |-> p.commit]

\* Faulty variant of CheckOutOn: the target itself, not the selected open
\* commit, is written into the view as the checkout (C14 must detect it).
CheckOutOn_ChecksOutTarget(st, trs, mr, target, fail) ==
    LET cur == mr.view.checkout
    IN  IF cur \notin DOMAIN st
        THEN CheckOutPanic(st, trs, mr, cur, MissingId)
        ELSE IF ~st[cur].is_open
        THEN CheckOutPanic(st, trs, mr, cur, MissingId)
        ELSE
          LET p == PruneStep(st, mr, cur)
          IN  IF st[target].tree.confl # {} /\ fail # "none"
              THEN CheckOutPanic(p.store, trs, p.mr, cur, p.commit)
              ELSE
                LET tree_id == MaterializedTree(st[target].tree)
                    s == SelectCommit(p.store, p.mr, target, tree_id)
                IN  [store |-> s.store,
                     trees |-> trs \cup {tree_id},
                     mr |-> SetCheckoutOf(s.mr, target),
                     result |-> "ok",
                     cur |-> cur,
                     ret |-> s.commit,
                     pruned_as |-> p.commit]

\* Faulty variant of CheckOutOn: when a store call fails during the
\* materialization, the prune made before it is undone (C17 must detect it).
CheckOutOn_RollsBack(st, trs, mr, target, fail) ==
    LET cur == mr.view.checkout
    IN  IF cur \notin DOMAIN st
        THEN CheckOutPanic(st, trs, mr, cur, MissingId)
        ELSE IF ~st[cur].is_open
        THEN CheckOutPanic(st, trs, mr, cur, MissingId)
        ELSE
          LET p == PruneStep(st, mr, cur)
          IN  IF st[target].tree.confl # {} /\ fail # "none"
              THEN CheckOutPanic(st, trs, mr, cur, MissingId)
              ELSE
                LET tree_id == MaterializedTree(st[target].tree)
                    s == SelectCommit(p.store, p.mr, target, tree_id)
                IN  [store |-> s.store,
                     trees |-> trs \cup {tree_id},
                     mr |-> SetCheckoutOf(s.mr, s.commit),
                     result |-> "ok",
                     cur |-> cur,
                     ret |-> s.commit,
                     pruned_as |-> p.commit]

\* check_out(settings, commit) on the MutableRepo mr = [view, evolution].
\* fail names the store call that fails while the target's conflicts are
\* materialized ("none": the store serves them all).
CheckOutOn(st, trs, mr, target, fail) ==
    LET cur == mr.view.checkout
    IN  IF cur \notin DOMAIN st
        THEN CheckOutPanic(st, trs, mr, cur, MissingId)      \* get_commit().unwrap()
        ELSE IF ~st[cur].is_open
        THEN CheckOutPanic(st, trs, mr, cur, MissingId)      \* assert!(is_open)
        ELSE
          LET p == PruneStep(st, mr, cur)
          IN  IF st[target].tree.confl # {} /\ fail # "none"
              THEN CheckOutPanic(p.store, trs, p.mr, cur, p.commit)
              ELSE
                LET tree_id == MaterializedTree(st[target].tree)
                    s == SelectCommit(p.store, p.mr, target, tree_id)
                IN  [store |-> s.store,
                     trees |-> trs \cup {tree_id},
                     mr |-> SetCheckoutOf(s.mr, s.commit),
                     result |-> "ok",
                     cur |-> cur,
                     ret |-> s.commit,
                     pruned_as |-> p.commit]

(* ------------------------- the base repository ----------------------- *)

RootCommit ==
    [parents |-> {}, predecessors |-> {}, tree |-> EmptyTree,
     is_open |-> FALSE, is_pruned |-> FALSE]

\* The repository every transaction is opened against: the root commit, an
\* open, empty working commit on top of it, which is checked out, and a
\* second open head whose tree holds an unresolved conflict.
BaseStore ==
    1 :> RootCommit @@
    2 :> ForOpenCommit(1, EmptyTree) @@
    3 :> ForOpenCommit(1, [files |-> {}, confl |-> Paths])

BaseView == [head_ids |-> {2, 3}, checkout |-> 2]

(* ------------------------------- inputs ------------------------------- *)

\* The commits a caller hands to write_commit, each on top of the root
\* commit: an open commit with a file, an open, empty and pruned commit, and
\* a closed commit whose tree holds an unresolved conflict.
CommitData ==
    { [parents |-> {1}, predecessors |-> {}, is_open |-> TRUE, is_pruned |-> FALSE,
       tree |-> [files |-> Paths, confl |-> {}]],
      [parents |-> {1}, predecessors |-> {}, is_open |-> TRUE, is_pruned |-> TRUE,
       tree |-> EmptyTree],
      [parents |-> {1}, predecessors |-> {}, is_open |-> FALSE, is_pruned |-> FALSE,
       tree |-> [files |-> {}, confl |-> Paths]] }

\* The serialized views a caller hands to set_view: the heads of the base
\* view or every stored commit as a head, with the base view's checkout or
\* an id the store does not hold.
ViewData(st) ==
    { [head_ids |-> h, checkout |-> c] :
        h \in {BaseView.head_ids, DOMAIN st}, c \in {BaseView.checkout, MissingId} }

StoreFailures == {"none", "read_conflict", "write_file"}

(* ------------------------------- state -------------------------------- *)

Init ==
    /\ store = BaseStore
    /\ trees = { BaseStore[c].tree : c \in DOMAIN BaseStore }
    /\ base = BaseView
    /\ \E computed \in BOOLEAN :
         LET evo == [valid |-> computed,
                     obsolete |-> IF computed
                                  THEN ComputeObsolete(BaseStore, BaseView)
                                  ELSE {}]
         IN  tx = [t \in Txs |-> NewTransaction(base, evo, t, 0)]
    /\ ops = <<>>
    /\ last = SimpleCall("new", MissingId, MissingId)
    /\ calls = 0

(* ------------------------------ actions ------------------------------- *)

MutableRepoOf(t) == [view |-> tx[t].view, evolution |-> tx[t].evolution]

WriteCommit(t, data) ==
    /\ Usable(t)
    /\ Cardinality(DOMAIN store) < MaxCommits
    /\ LET w == WriteCommitTo(store, MutableRepoOf(t), data)
       IN  /\ store' = w.store
           /\ trees' = trees \cup {data.tree}
           /\ tx' = WithRepo(tx, t, w.mr.view, w.mr.evolution)
           /\ last' = Call("write_commit", t, "ok", MissingId, MissingId,
                           w.commit, MissingId, FALSE, "none")
    /\ UNCHANGED <<base, ops>>

CheckOut(t, target, fail) ==
    /\ Usable(t)
    /\ fail = "none" \/ store[target].tree.confl # {}
    /\ LET r == CheckOutOn(store, trees, MutableRepoOf(t), target, fail)
       IN  /\ Cardinality(DOMAIN r.store) <= MaxCommits
           /\ store' = r.store
           /\ trees' = r.trees
           /\ tx' = WithRepo(tx, t, r.mr.view, r.mr.evolution)
           /\ last' = Call("check_out", t, r.result, target, r.cur, r.ret,
                           r.pruned_as, FALSE, fail)
    /\ UNCHANGED <<base, ops>>

\* Faulty variant of SetCheckout: an id the store does not hold is refused
\* and the checkout stays as it was (C11 must detect it).
SetCheckout_RejectsUnknown(t, id) ==
    /\ Usable(t)
    /\ LET mr == IF id \in DOMAIN store
                 THEN SetCheckoutOf(MutableRepoOf(t), id)
                 ELSE MutableRepoOf(t)
       IN  tx' = WithRepo(tx, t, mr.view, mr.evolution)
    /\ last' = SimpleCall("set_checkout", t, id)
    /\ UNCHANGED <<store, trees, base, ops>>

SetCheckout(t, id) ==
    /\ Usable(t)
    /\ LET mr == SetCheckoutOf(MutableRepoOf(t), id)
       IN  tx' = WithRepo(tx, t, mr.view, mr.evolution)
    /\ last' = SimpleCall("set_checkout", t, id)
    /\ UNCHANGED <<store, trees, base, ops>>

AddHead(t, head) ==
    /\ Usable(t)
    /\ LET mr == AddHeadTo(MutableRepoOf(t), head)
       IN  tx' = WithRepo(tx, t, mr.view, mr.evolution)
    /\ last' = SimpleCall("add_head", t, MissingId)
    /\ UNCHANGED <<store, trees, base, ops>>

RemoveHead(t, head) ==
    /\ Usable(t)
    /\ LET mr == RemoveHeadFrom(MutableRepoOf(t), head)
       IN  tx' = WithRepo(tx, t, mr.view, mr.evolution)
    /\ last' = SimpleCall("remove_head", t, MissingId)
    /\ UNCHANGED <<store, trees, base, ops>>

SetView(t, data) ==
    /\ Usable(t)
    /\ LET mr == SetViewOf(MutableRepoOf(t), data)
       IN  tx' = WithRepo(tx, t, mr.view, mr.evolution)
    /\ last' = SimpleCall("set_view", t, MissingId)
    /\ UNCHANGED <<store, trees, base, ops>>

\* A reader asking tx.as_repo().evolution().is_obsolete(id).
IsObsolete(t, id) ==
    /\ Usable(t)
    /\ LET q == IsObsoleteIn(store, MutableRepoOf(t), id)
       IN  /\ tx' = WithRepo(tx, t, q.mr.view, q.mr.evolution)
           /\ last' = Call("is_obsolete", t, "ok", id, MissingId, MissingId,
                           MissingId, q.answer, "none")
    /\ UNCHANGED <<store, trees, base, ops>>

\* Faulty variant of Dropped: the assertion is made even while the thread
\* unwinds (C1 must detect it).
Dropped_AssertsWhileUnwinding(txn, panicking) ==
    [txn EXCEPT !.status = "released",
                !.unwinding = panicking,
                !.drop_fault = ~txn.closed,
                !.repo = "None",
                !.handles = 0,
                !.view = NoView,
                !.evolution = NoEvolution]

\* Drop for Transaction: the assertion is skipped while the thread unwinds.
\* The fields are dropped with the object: the MutableRepo, its view and its
\* evolution are gone.
Dropped(txn, panicking) ==
    [txn EXCEPT !.status = "released",
                !.unwinding = panicking,
                !.drop_fault = ~panicking /\ ~txn.closed,
                !.repo = "None",
                !.handles = 0,
                !.view = NoView,
                !.evolution = NoEvolution]

\* view.save(description, start_time): the Operation holding the view.
Save(view, description, start_time) ==
    [view |-> [head_ids |-> view.head_ids, checkout |-> view.checkout],
     description |-> description, start_time |-> start_time]

\* Faulty variant of Commit: the Operation is saved from the base view, not
\* from the transaction's mutable view (C4 must detect it).
Commit_SavesBaseView(t) ==
    /\ Usable(t)
    /\ ops' = Append(ops, Save(base, tx[t].description, tx[t].start_time))
    /\ tx' = [tx EXCEPT ![t] =
                Dropped([@ EXCEPT !.evolution = NoEvolution,
                                  !.repo = "None",
                                  !.view = NoView,
                                  !.closed = TRUE,
                                  !.called = "commit"], FALSE)]
    /\ last' = SimpleCall("commit", t, MissingId)
    /\ UNCHANGED <<store, trees, base>>

\* Faulty variant of Commit: the MutableRepo is not taken out and the
\* Transaction is not consumed, so it can be committed again (C13 must
\* detect it).
Commit_LeavesLive(t) ==
    /\ Usable(t)
    /\ ops' = Append(ops, Save(tx[t].view, tx[t].description, tx[t].start_time))
    /\ tx' = [tx EXCEPT ![t].closed = TRUE, ![t].called = "commit"]
    /\ last' = SimpleCall("commit", t, MissingId)
    /\ UNCHANGED <<store, trees, base>>

\* Faulty variant of CommitSteps: closed is set first, before the evolution
\* is dropped and the view is saved (C19 must detect it).
CommitSteps_ClosesFirst(txn) ==
    IF txn.repo # "Some" \/ txn.handles # 1
    THEN << [txn |-> txn, ops |-> <<>>, fault |-> TRUE] >>
    ELSE LET operation == Save(txn.view, txn.description, txn.start_time)
             s1 == [txn EXCEPT !.closed = TRUE, !.called = "commit"]
             s2 == [s1 EXCEPT !.evolution = NoEvolution]
             s3 == [s2 EXCEPT !.repo = "None", !.handles = 0]
             s4 == [s3 EXCEPT !.view = NoView]
         IN  << [txn |-> s1, ops |-> <<>>, fault |-> FALSE],
                [txn |-> s2, ops |-> <<>>, fault |-> FALSE],
                [txn |-> s3, ops |-> <<>>, fault |-> FALSE],
                [txn |-> s4, ops |-> <<>>, fault |-> FALSE],
                [txn |-> s4, ops |-> <<operation>>, fault |-> FALSE] >>

\* commit(self), line by line: the Transaction and the Operations produced
\* after each of lines 187-191.  Arc::get_mut(..).unwrap() (line 186) and
\* Arc::try_unwrap(..).ok().unwrap() (line 188) panic unless the Transaction
\* holds the only handle to its MutableRepo; then nothing has been done.
CommitSteps(txn) ==
    IF txn.repo # "Some" \/ txn.handles # 1
    THEN << [txn |-> txn, ops |-> <<>>, fault |-> TRUE] >>
    ELSE LET operation == Save(txn.view, txn.description, txn.start_time)
             s1 == [txn EXCEPT !.evolution = NoEvolution]             \* line 187
             s2 == [s1 EXCEPT !.repo = "None", !.handles = 0]         \* line 188
             s3 == [s2 EXCEPT !.view = NoView]                        \* line 189
             s4 == [s3 EXCEPT !.closed = TRUE, !.called = "commit"]   \* line 191
         IN  << [txn |-> s1, ops |-> <<>>, fault |-> FALSE],
                [txn |-> s2, ops |-> <<>>, fault |-> FALSE],
                [txn |-> s3, ops |-> <<>>, fault |-> FALSE],
                [txn |-> s3, ops |-> <<operation>>, fault |-> FALSE], \* line 190
                [txn |-> s4, ops |-> <<operation>>, fault |-> FALSE] >>

\* commit(self): drops the evolution, takes the MutableRepo and its view out
\* of the transaction, saves the view, sets closed and returns the
\* Operation; self is then dropped (during an unwind when commit panicked).
Commit(t) ==
    /\ tx[t].status = "live"
    /\ LET steps == CommitSteps(tx[t])
           end   == steps[Len(steps)]
       IN  /\ ops' = ops \o end.ops
           /\ tx' = [tx EXCEPT ![t] = Dropped(end.txn, end.fault)]
    /\ last' = SimpleCall("commit", t, MissingId)
    /\ UNCHANGED <<store, trees, base>>

\* Faulty variant of Discard: closed is not set before self is dropped (C2
\* must detect it).
Discard_LeavesOpen(t) ==
    /\ tx[t].status = "live"
    /\ tx' = [tx EXCEPT ![t] = Dropped([@ EXCEPT !.called = "discard"], FALSE)]
    /\ last' = SimpleCall("discard", t, MissingId)
    /\ UNCHANGED <<store, trees, base, ops>>

\* discard(self): sets closed; self is then dropped.
Discard(t) ==
    /\ tx[t].status = "live"
    /\ tx' = [tx EXCEPT ![t] =
                Dropped([@ EXCEPT !.closed = TRUE, !.called = "discard"], FALSE)]
    /\ last' = SimpleCall("discard", t, MissingId)
    /\ UNCHANGED <<store, trees, base, ops>>

\* The transaction goes out of scope without commit() or discard(), either
\* in normal control flow or while the thread unwinds from a panic.
Drop(t, panicking) ==
    /\ tx[t].status = "live"
    /\ tx' = [tx EXCEPT ![t] = Dropped(@, panicking)]
    /\ last' = SimpleCall("drop", t, MissingId)
    /\ UNCHANGED <<store, trees, base, ops>>

\* Any call on transaction t.
Step(t) ==
    \/ \E data \in CommitData : WriteCommit(t, data)
    \/ \E target \in DOMAIN store, fail \in StoreFailures :
           CheckOut(t, target, fail)
    \/ \E id \in DOMAIN store \cup {MissingId} : SetCheckout(t, id)
    \/ \E head \in DOMAIN store : AddHead(t, head)
    \/ \E head \in DOMAIN store : RemoveHead(t, head)
    \/ \E data \in ViewData(store) : SetView(t, data)
    \/ \E id \in DOMAIN BaseStore : IsObsolete(t, id)
    \/ Commit(t)
    \/ Discard(t)
    \/ \E panicking \in BOOLEAN : Drop(t, panicking)

\* One session at work; the other transaction stays open and idle.
Next == Step(1) /\ UNCHANGED calls

Spec == Init /\ [][Next]_vars

\* Two sessions opened against the same base, their calls interleaved in
\* every order.
NextConcurrent ==
    /\ calls < MaxCalls
    /\ calls' = calls + 1
    /\ \E t \in Txs : Step(t)

SpecConcurrent == Init /\ [][NextConcurrent]_vars

(* ------------------------- life cycle: C1, C2 -------------------------- *)

\* C1: a Transaction released with neither commit() nor discard() called and
\* no unwind in progress raises a fault in Drop; released after commit() or
\* discard(), or released unclosed during an unwind, it raises none.
C1_DropFaultsExactlyWhenUnclosed ==
    \A t \in Txs :
        tx[t].status = "released" =>
            (tx[t].drop_fault <=> (tx[t].called = "none" /\ ~tx[t].unwinding))

\* A transaction was released unclosed in normal control flow and faulted.
C1_Witness ==
    \E t \in Txs :
        /\ tx[t].status = "released"
        /\ tx[t].called = "none"
        /\ ~tx[t].unwinding
        /\ tx[t].drop_fault

\* C2: closed is true exactly when commit() or discard() has been called:
\* false after new(), untouched by every mutation operation.
C2_ClosedIffCommitOrDiscard ==
    \A t \in Txs : tx[t].closed <=> tx[t].called \in {"commit", "discard"}

\* A transaction that wrote a commit and was then discarded is closed.
C2_Witness ==
    \E t \in Txs :
        /\ tx[t].called = "discard"
        /\ tx[t].closed
        /\ DOMAIN store # DOMAIN BaseStore

(* --------------------------- isolation: C3 ----------------------------- *)

\* C3: a call on one transaction changes neither the head set and checkout
\* seen through the other transaction nor the base repository's view.
C3_Isolation ==
    [][\A t \in Txs :
          (calls' # calls /\ last'.t = t) =>
              /\ base' = base
              /\ \A u \in Txs \ {t} : tx'[u].view = tx[u].view]_vars

\* Both transactions have moved their views away from the base view, to
\* different views.
C3_Witness ==
    /\ tx[1].status = "live" /\ tx[2].status = "live"
    /\ tx[1].view # StartModification(base)
    /\ tx[2].view # StartModification(base)
    /\ tx[1].view.head_ids # tx[2].view.head_ids
    /\ tx[1].view.checkout # tx[2].view.checkout

(* --------------------------- round trip: C4 ---------------------------- *)

\* C4: the Operation returned by commit() holds exactly the head set and the
\* checkout id the transaction's mutable view had when commit() was called.
C4_OperationHoldsFinalView ==
    [][\A t \in Txs :
          (last'.op = "commit" /\ last'.t = t /\ tx[t].status = "live") =>
              /\ Len(ops') = Len(ops) + 1
              /\ ops'[Len(ops')].view.head_ids = tx[t].view.head_ids
              /\ ops'[Len(ops')].view.checkout = tx[t].view.checkout]_vars

\* A transaction committed after its heads and its checkout had both moved
\* away from the base view.
C4_Witness ==
    /\ last.op = "commit"
    /\ Len(ops) = 1
    /\ ops[1].view.head_ids # base.head_ids
    /\ ops[1].view.checkout # base.checkout

(* ----------------------- evolution cache: C5, C6 ----------------------- *)

\* C5: the cached evolution is never stale: whenever it is valid it is the
\* evolution of the current view, and the answer of every obsolescence
\* query is the one computed from the current view.
C5_NoStaleEvolution ==
    /\ \A t \in Txs :
          (tx[t].evolution.some /\ tx[t].evolution.valid) =>
              tx[t].evolution.obsolete = ComputeObsolete(store, tx[t].view)
    /\ last.op = "is_obsolete" =>
          (last.answer <=> last.target \in ComputeObsolete(store, tx[last.t].view))

\* A query answered "obsolete" for a commit that was not obsolete in the base
\* view, on a view whose heads have changed.
C5_Witness ==
    /\ last.op = "is_obsolete"
    /\ last.answer
    /\ last.target \notin ComputeObsolete(store, base)
    /\ tx[last.t].view.head_ids # base.head_ids

CheckOutStep(t) == last'.op = "check_out" /\ last'.t = t /\ tx[t].status = "live"

\* Before the step, the checkout of t is a stored commit.
CheckoutStored(t) == tx[t].view.checkout \in DOMAIN store

\* Before the step, the checkout of t is empty, not pruned and not obsolete.
CheckoutPrunable(t) ==
    /\ IsEmpty(store, tx[t].view.checkout)
    /\ ~store[tx[t].view.checkout].is_pruned
    /\ tx[t].view.checkout \notin ComputeObsolete(store, tx[t].view)

\* The commits the step has stored that are pruned rewrites of commit c.
NewPrunedRewrites(c) ==
    { n \in DOMAIN store' \ DOMAIN store :
        store'[n].predecessors = {c} /\ store'[n].is_pruned }

C9_ClosedTargetPromotion ==
    [][\A t \in Txs :
          (CheckOutStep(t) /\ ~store[last'.target].is_open) =>
              /\ last'.result = "ok" =>
                    /\ last'.ret \in DOMAIN store' \ DOMAIN store
                    /\ store'[last'.ret].is_open
                    /\ store'[last'.ret].parents = {last'.target}
                    /\ store'[last'.ret].tree = MaterializedTree(store[last'.target].tree)
                    /\ last'.ret \in tx'[t].view.head_ids
                    /\ tx'[t].view.checkout = last'.ret
              /\ tx'[t].view.checkout = last'.target
                    => tx[t].view.checkout = last'.target]_vars

\* A check_out of a closed target returned a new open commit on top of it.
C9_Witness ==
    /\ last.op = "check_out"
    /\ last.result = "ok"
    /\ ~store[last.target].is_open
    /\ last.ret # last.target
    /\ store[last.ret].parents = {last.target}
    /\ tx[last.t].view.checkout = last.ret

\* C10 as stated: a check_out of an open, conflict-free target that returns,
\* returns the target, sets the checkout to it, and leaves the store's
\* commits and the view's head set as they were.
C10_CleanOpenTargetChangesNothing ==
    [][\A t \in Txs :
          (/\ CheckOutStep(t)
           /\ store[last'.target].is_open
           /\ store[last'.target].tree.confl = {}
           /\ last'.result = "ok") =>
              /\ last'.ret = last'.target
              /\ tx'[t].view.checkout = last'.target
              /\ store' = store
              /\ tx'[t].view.head_ids = tx[t].view.head_ids]_vars

\* C10 amended: a check_out of an open, conflict-free target that returns,
\* returns the target and sets the checkout to it; it creates no commit for
\* the target, and the only commit it can store and add to the heads is the
\* pruned rewrite of an empty, unpruned, non-obsolete current checkout.
C10_CleanOpenTargetReused ==
    [][\A t \in Txs :
          (/\ CheckOutStep(t)
           /\ store[last'.target].is_open
           /\ store[last'.target].tree.confl = {}
           /\ last'.result = "ok") =>
              /\ last'.ret = last'.target
              /\ tx'[t].view.checkout = last'.target
              /\ \A c \in DOMAIN store : store'[c] = store[c]
              /\ IF CheckoutPrunable(t)
                 THEN /\ DOMAIN store' \ DOMAIN store = {last'.pruned_as}
                      /\ NewPrunedRewrites(tx[t].view.checkout) = {last'.pruned_as}
                      /\ tx'[t].view.head_ids =
                             tx[t].view.head_ids \cup {last'.pruned_as}
                 ELSE /\ store' = store
                      /\ tx'[t].view.head_ids = tx[t].view.head_ids]_vars

\* A check_out of an open, conflict-free target returned the target while
\* the call stored a pruned rewrite of the commit it left.
C10_Witness ==
    /\ last.op = "check_out"
    /\ last.result = "ok"
    /\ store[last.target].is_open
    /\ store[last.target].tree.confl = {}
    /\ last.ret = last.target
    /\ last.pruned_as \in DOMAIN store
    /\ last.pruned_as \in tx[last.t].view.head_ids

(* ------------------------ set_checkout: C11 --------------------------- *)

\* C11: set_checkout(id) succeeds for every id, also one that is neither in
\* the store nor in the head set; it sets the checkout to exactly id and
\* leaves the head set, the description, the start time, the closed flag and
\* the store as they were.  An id the store does not hold is only noticed by
\* the next check_out, which faults at the lookup of the current checkout
\* before it has changed anything.
C11_SetCheckoutUnvalidated ==
    [][\A t \in Txs :
          /\ (last'.op = "set_checkout" /\ last'.t = t) =>
                /\ last'.result = "ok"
                /\ tx'[t].view.checkout = last'.target
                /\ tx'[t].view.head_ids = tx[t].view.head_ids
                /\ tx'[t].description = tx[t].description
                /\ tx'[t].start_time = tx[t].start_time
                /\ tx'[t].closed = tx[t].closed
                /\ tx'[t].status = "live"
                /\ store' = store
          /\ (CheckOutStep(t) /\ ~CheckoutStored(t)) =>
                /\ last'.result = "panic"
                /\ tx'[t].view = tx[t].view
                /\ store' = store]_vars

\* set_checkout has just made an id that is neither stored nor a head the
\* checkout of a live transaction.
C11_Witness ==
    /\ last.op = "set_checkout"
    /\ last.target \notin DOMAIN store
    /\ last.target \notin tx[last.t].view.head_ids
    /\ tx[last.t].status = "live"
    /\ tx[last.t].view.checkout = last.target

(* ------------------------ write_commit: C12 --------------------------- *)

OperationsOf(t) == { i \in 1..Len(ops) : ops[i].description = tx[t].description }

\* C13: a Transaction produces at most one Operation over its life: exactly
\* one when commit() was called on it, none when it was discarded, released
\* without closing, or is still open.  discard() and an abandoning Drop
\* persist nothing: no Operation, no commit, no tree, no change of the base
\* view.  Once commit() or discard() has returned, nothing happens to the
\* transaction any more and it produces no further Operation.
C13_AtMostOneOperation ==
    /\ [](\A t \in Txs :
            Cardinality(OperationsOf(t)) = IF tx[t].called = "commit" THEN 1 ELSE 0)
    /\ [][\A t \in Txs :
            /\ (last'.op \in {"discard", "drop"} /\ last'.t = t
                   /\ tx[t].status = "live") =>
                  /\ ops' = ops
                  /\ store' = store
                  /\ trees' = trees
                  /\ base' = base
            /\ tx[t].status = "released" =>
                  /\ tx'[t] = tx[t]
                  /\ OperationsOf(t)' = OperationsOf(t)]_vars

\* Two transactions are closed after one of them wrote a commit: the one
\* that committed has produced the only Operation, the one that was
\* discarded none.
C13_Witness ==
    \E t, u \in Txs :
        /\ tx[t].called = "commit"
        /\ tx[u].called = "discard"
        /\ Len(ops) = 1
        /\ ops[1].description = tx[t].description
        /\ DOMAIN store # DOMAIN BaseStore

(* ---------------------- check_out: C14 - C17 -------------------------- *)

\* C14: after a check_out that returns, the checkout is the returned commit
\* and that commit is open.  A check_out that starts from an open checkout
\* leaves an open checkout behind, whether it returns or faults, and it does
\* not fault unless a store call fails during the materialization: a
\* sequence of check_out calls that starts from an open checkout never hits
\* the "current checkout is closed" assertion.
C14_CheckoutStaysOpen ==
    [][\A t \in Txs :
          /\ (CheckOutStep(t) /\ last'.result = "ok") =>
                /\ tx'[t].view.checkout = last'.ret
                /\ last'.ret \in DOMAIN store'
                /\ store'[last'.ret].is_open
          /\ (/\ CheckOutStep(t)
              /\ CheckoutStored(t)
              /\ store[tx[t].view.checkout].is_open) =>
                /\ tx'[t].view.checkout \in DOMAIN store'
                /\ store'[tx'[t].view.checkout].is_open
                /\ last'.result = "panic" => last'.fail # "none"]_vars

\* The second of two check_out calls has returned: the checkout it left was
\* the rewrite an earlier check_out had made of the conflicted commit 3, and
\* the checkout is again an open commit.
C14_Witness ==
    /\ last.op = "check_out"
    /\ last.result = "ok"
    /\ last.cur \in DOMAIN store \ DOMAIN BaseStore
    /\ store[last.cur].predecessors = {3}
    /\ last.ret # last.cur
    /\ tx[last.t].view.checkout = last.ret
    /\ store[last.ret].is_open

\* C15: a check_out of an open target whose tree holds a conflict, when it
\* returns, returns a commit created by the call, not the target: a rewrite
\* of the target (the target is its predecessor, its parents are the
\* target's), open, whose tree holds a normal file at every path that was
\* conflicted and is otherwise the target's tree.  Whatever the target, the
\* commit that a returning check_out makes the checkout has a tree without
\* conflicts.
C15_ConflictsMaterialized ==
    [][\A t \in Txs :
          /\ (/\ CheckOutStep(t)
              /\ store[last'.target].is_open
              /\ store[last'.target].tree.confl # {}
              /\ last'.result = "ok") =>
                /\ last'.ret # last'.target
                /\ last'.ret \in DOMAIN store' \ DOMAIN store
                /\ store'[last'.ret].predecessors = {last'.target}
                /\ store'[last'.ret].parents = store[last'.target].parents
                /\ store'[last'.ret].is_open
                /\ store'[last'.ret].tree.confl = {}
                /\ store'[last'.ret].tree.files =
                       store[last'.target].tree.files \cup store[last'.target].tree.confl
          /\ (CheckOutStep(t) /\ last'.result = "ok") =>
                /\ tx'[t].view.checkout \in DOMAIN store'
                /\ store'[tx'[t].view.checkout].tree.confl = {}
                /\ store'[tx'[t].view.checkout].tree \in trees']_vars

\* A check_out of the open, conflicted commit 3 has returned a rewrite of it
\* whose tree holds a file where the conflict was.
C15_Witness ==
    /\ last.op = "check_out"
    /\ last.result = "ok"
    /\ store[last.target].is_open
    /\ store[last.target].tree.confl = Paths
    /\ last.ret # last.target
    /\ store[last.ret].predecessors = {last.target}
    /\ store[last.ret].tree = [files |-> Paths, confl |-> {}]
    /\ tx[last.t].view.checkout = last.ret

\* C16 as stated: whenever check_out writes the new checkout id into the
\* view, that id is a member of the view's head set, in each of the three
\* selection cases.  (The write is the last thing check_out does, so the
\* head set at that moment is the head set the call leaves.)
C16_CheckoutAlwaysAHead ==
    [][\A t \in Txs :
          (CheckOutStep(t) /\ last'.result = "ok") =>
              tx'[t].view.checkout \in tx'[t].view.head_ids]_vars

\* C16 amended: when check_out has created the commit it checks out (the
\* target was closed, or open with conflicts), the new checkout id is a
\* member of the head set, added by the write that created the commit.  When
\* the open, conflict-free target is used as it is, the call neither adds
\* it to the head set nor removes it: the new checkout is a head exactly
\* when the target was one before the call.
C16_CreatedCheckoutIsAHead ==
    [][\A t \in Txs :
          (CheckOutStep(t) /\ last'.result = "ok") =>
              IF ~store[last'.target].is_open \/ store[last'.target].tree.confl # {}
              THEN /\ tx'[t].view.checkout \in DOMAIN store' \ DOMAIN store
                   /\ tx'[t].view.checkout \in tx'[t].view.head_ids
              ELSE /\ tx'[t].view.checkout = last'.target
                   /\ last'.target \in tx'[t].view.head_ids
                         <=> last'.target \in tx[t].view.head_ids]_vars

\* A check_out has returned its open, conflict-free target, which is now the
\* checkout and is not a head of the view.
C16_Witness ==
    /\ last.op = "check_out"
    /\ last.result = "ok"
    /\ last.ret = last.target
    /\ tx[last.t].view.checkout = last.target
    /\ last.target \notin tx[last.t].view.head_ids
    /\ tx[last.t].view.head_ids # {}

\* C17: check_out does not roll back.  With an open, empty, unpruned,
\* non-obsolete current checkout C, a check_out in which a store call fails
\* during the materialization (the conflict is not found, or the file cannot
\* be written) faults, and when it has faulted the pruned rewrite of C that
\* it stored is a head of the view (the only one it added) while the
\* checkout is still C.
C17_NoRollback ==
    [][\A t \in Txs :
          (/\ CheckOutStep(t)
           /\ CheckoutStored(t)
           /\ store[tx[t].view.checkout].is_open
           /\ CheckoutPrunable(t)) =>
              /\ last'.fail # "none" => last'.result = "panic"
              /\ last'.result = "panic" =>
                    /\ last'.fail \in {"read_conflict", "write_file"}
                    /\ NewPrunedRewrites(tx[t].view.checkout) = {last'.pruned_as}
                    /\ DOMAIN store' = DOMAIN store \cup {last'.pruned_as}
                    /\ tx'[t].view.head_ids =
                           tx[t].view.head_ids \cup {last'.pruned_as}
                    /\ last'.pruned_as \notin tx[t].view.head_ids
                    /\ tx'[t].view.checkout = tx[t].view.checkout]_vars

\* A check_out has faulted on a failed store call: the pruned rewrite of the
\* checkout is a head, and the checkout is the commit it was.
C17_Witness ==
    /\ last.op = "check_out"
    /\ last.result = "panic"
    /\ last.fail \in {"read_conflict", "write_file"}
    /\ last.pruned_as \in DOMAIN store
    /\ store[last.pruned_as].is_pruned
    /\ store[last.pruned_as].predecessors = {last.cur}
    /\ last.pruned_as \in tx[last.t].view.head_ids
    /\ tx[last.t].view.checkout = last.cur

(* ----------------------- error handling: C18 -------------------------- *)

\* C18 as stated: a check_out that meets a data-consistency failure (the
\* current checkout is not found in the store, a conflict is not found, a
\* materialized file cannot be written) ends with an explicit failure
\* outcome for its caller: it neither returns a commit nor ends in the fault
\* that a violated precondition (a closed current checkout) ends in.  A
\* transaction that is discarded right after such a check_out raises no
\* fault in Drop.
C18_FailurePropagatedExplicitly ==
    [][\A t \in Txs :
          /\ (CheckOutStep(t) /\ (~CheckoutStored(t) \/ last'.fail # "none")) =>
                last'.result \notin {"ok", "panic"}
          /\ (/\ last.op = "check_out" /\ last.t = t /\ last.result # "ok"
              /\ last'.op = "discard" /\ last'.t = t) =>
                ~tx'[t].drop_fault]_vars

\* A check_out has ended in a panic because the store did not serve a
\* conflict of the target; the transaction is still there to be discarded.
C18_Witness ==
    /\ last.op = "check_out"
    /\ last.fail = "read_conflict"
    /\ last.result = "panic"
    /\ store[last.cur].is_open
    /\ Usable(last.t)

(* ----------------------- commit's order: C19 -------------------------- *)

\* C19: an Operation is only ever produced by a commit() whose Transaction
\* holds the only handle to its MutableRepo, and no transaction ever has a
\* second handle.  Were the handle shared, commit() would fault at once,
\* with nothing done and no Operation.  With the only handle, commit()
\* first drops the mutable evolution (the MutableRepo still in place, no
\* Operation yet), then takes the MutableRepo out, leaving None, then takes
\* and saves the view, which produces the Operation, and sets closed last.
C19_CommitNeedsSoleHandle ==
    /\ [](\A t \in Txs : tx[t].handles = IF tx[t].repo = "Some" THEN 1 ELSE 0)
    /\ [][\A t \in Txs :
            /\ OperationsOf(t)' # OperationsOf(t) =>
                  /\ last'.op = "commit" /\ last'.t = t
                  /\ tx[t].handles = 1
            /\ (last'.op = "commit" /\ last'.t = t /\ tx[t].status = "live") =>
                  LET shared == CommitSteps([tx[t] EXCEPT !.handles = 2])
                      steps  == CommitSteps(tx[t])
                      saved  == Save(tx[t].view, tx[t].description, tx[t].start_time)
                  IN  /\ shared = << [txn |-> [tx[t] EXCEPT !.handles = 2],
                                      ops |-> <<>>, fault |-> TRUE] >>
                      /\ Len(steps) = 5
                      /\ \A i \in 1..5 : ~steps[i].fault
                      /\ steps[1].txn.evolution = NoEvolution
                      /\ steps[1].txn.repo = "Some"
                      /\ steps[1].txn.view = tx[t].view
                      /\ steps[2].txn.repo = "None"
                      /\ steps[3].txn.view = NoView
                      /\ \A i \in 1..3 : steps[i].ops = <<>>
                      /\ steps[4].ops = <<saved>>
                      /\ \A i \in 1..4 : ~steps[i].txn.closed
                      /\ steps[5].txn.closed
                      /\ steps[5].ops = <<saved>>
                      /\ ops' = Append(ops, saved)
                      /\ tx'[t] = Dropped(steps[5].txn, FALSE)
                      /\ ~tx'[t].drop_fault]_vars

\* commit() has returned the Operation of a transaction whose head set had
\* changed: the MutableRepo is gone from the Transaction, which is closed and
\* was released without a fault.
C19_Witness ==
    /\ last.op = "commit"
    /\ Len(ops) = 1
    /\ ops[1].view.head_ids # base.head_ids
    /\ tx[last.t].repo = "None"
    /\ tx[last.t].handles = 0
    /\ ~tx[last.t].evolution.some
    /\ tx[last.t].closed
    /\ ~tx[last.t].drop_fault

(* ------------------------ pruning once: C20 --------------------------- *)

\* The heads of t's view that are pruned rewrites of commit c.
PrunedHeadsOf(t, c) ==
    { n \in tx[t].view.head_ids \cap DOMAIN store :
        store[n].predecessors = {c} /\ store[n].is_pruned }

\* C20: check_out prunes a commit at most once.  check_out never removes a
\* head, so the pruned rewrite it gave the checkout C stays a head over any
\* sequence of check_out calls; and while a pruned rewrite of C is a head, C
\* is reported obsolete, and a check_out that finds C as the current
\* checkout, whatever its target and outcome, stores no pruned rewrite of C.
C20_PrunedAtMostOnce ==
    /\ [](\A t \in Txs :
            (/\ Usable(t)
             /\ CheckoutStored(t)
             /\ PrunedHeadsOf(t, tx[t].view.checkout) # {}) =>
                /\ IsObsoleteIn(store, MutableRepoOf(t), tx[t].view.checkout).answer
                /\ \A target \in DOMAIN store, fail \in StoreFailures :
                      CheckOutOn(store, trees, MutableRepoOf(t), target, fail).pruned_as
                          = MissingId)
    /\ [][\A t \in Txs :
            CheckOutStep(t) =>
                /\ tx[t].view.head_ids \subseteq tx'[t].view.head_ids
                /\ \A c \in DOMAIN store :
                      PrunedHeadsOf(t, c) \subseteq PrunedHeadsOf(t, c)'
                /\ (CheckoutStored(t) /\ PrunedHeadsOf(t, tx[t].view.checkout) # {}) =>
                      /\ last'.pruned_as = MissingId
                      /\ NewPrunedRewrites(tx[t].view.checkout) = {}]_vars

\* A check_out has found as the current checkout an open, empty, unpruned
\* commit that an earlier check_out had pruned, and has stored no second
\* pruned rewrite of it.
C20_Witness ==
    /\ last.op = "check_out"
    /\ last.result = "ok"
    /\ last.cur \in DOMAIN store
    /\ store[last.cur].is_open
    /\ IsEmpty(store, last.cur)
    /\ ~store[last.cur].is_pruned
    /\ last.pruned_as = MissingId
    /\ PrunedHeadsOf(last.t, last.cur) # {}
    /\ Cardinality({ n \in DOMAIN store :
                       store[n].predecessors = {last.cur} /\ store[n].is_pruned }) = 1

============================================================================
